---- MODULE Spec2Model ----
(***************************************************************************)
(* A model of bro-otx.py: one run of main(), which opens the output file,  *)
(* writes the Bro Intel header and then consumes the generator             *)
(* iter_pulses(), writing one tab-separated record per supported indicator.*)
(*                                                                         *)
(* The remote OTX service is the environment.  Each URL the script         *)
(* requests is answered by one response; the response of a URL is chosen   *)
(* when the URL is requested for the first time and stays the same after.  *)
(* URL 1 stands for _URL with its limit/modified_since parameters, URL n   *)
(* for the n-th page; a `next` of 0 stands for a falsy `next` (null or '').*)
(*                                                                         *)
(* A line of the output file is modelled as the sequence of its            *)
(* tab-separated fields (what '\t'.join builds), the newline kept in the   *)
(* last field where the source puts it.                                    *)
(***************************************************************************)
EXTENDS Integers, Sequences, FiniteSets, TLC

\* ------------------------------------------------------------------ bounds
\* The longest chain of pages the service links together.
MaxPages == 2
\* The largest number of pulses in one page's `results`.
MaxPulses == 2

\* --------------------------------------------------------- program constants
\* _HEADER, split at its tab characters.
_HEADER == <<"#fields", "indicator", "indicator_type", "meta.source",
             "meta.url", "meta.do_notice\n">>

\* MapTable with one entry wrong: hostname filed under Intel::ADDR.
MapTable_HostnameAsAddr ==
  "IPv4" :> "Intel::ADDR" @@ "IPv6" :> "Intel::ADDR" @@
  "domain" :> "Intel::DOMAIN" @@ "hostname" :> "Intel::ADDR" @@
  "email" :> "Intel::EMAIL" @@
  "URL" :> "Intel::URL" @@ "URI" :> "Intel::URL" @@
  "FileHash-MD5" :> "Intel::FILE_HASH" @@
  "FileHash-SHA1" :> "Intel::FILE_HASH" @@
  "FileHash-SHA256" :> "Intel::FILE_HASH" @@
  "CVE" :> "Unsupported" @@ "Mutex" :> "Unsupported" @@
  "CIDR" :> "Unsupported"

\* The dictionary literal bound to _MAP when the module is loaded.
MapTable ==
  "IPv4" :> "Intel::ADDR" @@ "IPv6" :> "Intel::ADDR" @@
  "domain" :> "Intel::DOMAIN" @@ "hostname" :> "Intel::DOMAIN" @@
  "email" :> "Intel::EMAIL" @@
  "URL" :> "Intel::URL" @@ "URI" :> "Intel::URL" @@
  "FileHash-MD5" :> "Intel::FILE_HASH" @@
  "FileHash-SHA1" :> "Intel::FILE_HASH" @@
  "FileHash-SHA256" :> "Intel::FILE_HASH" @@
  "CVE" :> "Unsupported" @@ "Mutex" :> "Unsupported" @@
  "CIDR" :> "Unsupported"

\* The url main falls back to when a pulse has no reference.
FallbackUrl == "https://otx.alienvault.com"

\* config.get('otx', 'do_notice'): read once, fixed for the run.
do_notice == "T"

\* ------------------------------------------------------------------- inputs
\* The pulses the service may return.  Pulse1 is the pulse of the spec's
\* round-trip scenario; Pulse2 has no reference and starts and ends with an
\* unsupported indicator; Pulse3 has two references and an indicator whose
\* type is not in _MAP; Pulse4 has an author name that is not ASCII.
\* Together they carry every type of _MAP.
Pulse1 == [author_name |-> "X", references |-> <<"http://r">>,
           indicators |-> <<[indicator |-> "1.2.3.4", type |-> "IPv4"],
                            [indicator |-> "CVE-2020-1", type |-> "CVE"]>>]
Pulse2 == [author_name |-> "Y", references |-> <<>>,
           indicators |-> <<[indicator |-> "mtx", type |-> "Mutex"],
                            [indicator |-> "evil.example", type |-> "domain"],
                            [indicator |-> "d41d8cd9", type |-> "FileHash-MD5"],
                            [indicator |-> "www.evil.example", type |-> "hostname"],
                            [indicator |-> "a@evil.example", type |-> "email"],
                            [indicator |-> "/gate.php", type |-> "URI"],
                            [indicator |-> "da39a3ee", type |-> "FileHash-SHA1"],
                            [indicator |-> "e3b0c442", type |-> "FileHash-SHA256"],
                            [indicator |-> "10.0.0.0/8", type |-> "CIDR"]>>]
Pulse3 == [author_name |-> "Z", references |-> <<"http://r2", "http://r">>,
           indicators |-> <<[indicator |-> "http://bad/x", type |-> "URL"],
                            [indicator |-> "rule", type |-> "YARA"],
                            [indicator |-> "::1", type |-> "IPv6"]>>]
Pulse4 == [author_name |-> "Jos\\xe9", references |-> <<"http://r">>,
           indicators |-> <<[indicator |-> "CVE-2021-2", type |-> "CVE"],
                            [indicator |-> "5.6.7.8", type |-> "IPv4"]>>]
Pulses == {Pulse1, Pulse2, Pulse3, Pulse4}

\* The strings of the inputs that hold a character outside ASCII, written
\* here with the character escaped (u'Jos\xe9').
NonAscii == {"Jos\\xe9"}

SeqUpTo(S, n) == UNION {[1..k -> S] : k \in 0..n}

\* The `results` arrays a page may carry.
ResultLists == SeqUpTo(Pulses, MaxPulses)

\* The statuses the service may answer with.
Statuses == {200, 400, 403, 500}

VARIABLES
  _MAP,             \* the module-level dictionary
  pc,               \* main's position: "open", "gen", "indicators", or an end
  gen,              \* iter_pulses' position while it runs or is suspended
  f,                \* the lines written to outfile
  f_open,           \* whether the with-block holds the file open
  stdout,           \* the messages printed
  exit_code,        \* the process's exit status, -1 while it runs
  error,            \* the exception that ended the run, "" if none
  pages,            \* the service: pages[u] is the response to URL u
  requests,         \* the URLs requested so far, in order
  initial_results,  \* iter_pulses' local
  json_data,        \* iter_pulses' local
  next_request,     \* iter_pulses' local
  idx,              \* position of the running for-loop over `results`
  pulse,            \* main's loop variable
  ind,              \* position of main's for-loop over pulse['indicators']
  yielded           \* the pulses iter_pulses has yielded, in order

vars == <<_MAP, pc, gen, f, f_open, stdout, exit_code, error, pages, requests,
          initial_results, json_data, next_request, idx, pulse, ind, yielded>>

\* A value for a local that is not bound yet.
Unbound == [status_code |-> 0, results |-> <<>>, next |-> 0]
NoPulse == [author_name |-> "", references |-> <<>>, indicators |-> <<>>]

Init ==
  /\ _MAP = MapTable
  /\ pc = "open"
  /\ gen = "start"
  /\ f = <<>>
  /\ f_open = FALSE
  /\ stdout = <<>>
  /\ exit_code = -1
  /\ error = ""
  /\ pages = <<>>
  /\ requests = <<>>
  /\ initial_results = Unbound
  /\ json_data = Unbound
  /\ next_request = 0
  /\ idx = 0
  /\ pulse = NoPulse
  /\ ind = 0
  /\ yielded = <<>>

\* ------------------------------------------------------------- the service
NextLinks(u) == IF u < MaxPages THEN {0, u + 1} ELSE {0}

\* The responses requests.get may return for URL u.
Responses(u) ==
  IF u <= Len(pages)
    THEN {pages[u]}
    ELSE {[status_code |-> 200, results |-> rs, next |-> n] :
             rs \in ResultLists, n \in NextLinks(u)}
         \cup {[status_code |-> s, results |-> <<>>, next |-> 0] :
             s \in Statuses \ {200}}

\* The URL _get requests: _URL (page 1) when next_request is '', else it.
RequestUrl(nr) == IF nr = 0 THEN 1 ELSE nr

\* _get returning an empty page, instead of None, for an unexpected status.
_get_OtherAsEmpty(r) ==
  IF r.status_code = 200 THEN [kind |-> "return", value |-> r]
  ELSE IF r.status_code = 403
    THEN [kind |-> "exit", code |-> 1,
          msg |-> "An invalid API key was specified."]
  ELSE IF r.status_code = 400
    THEN [kind |-> "exit", code |-> 1,
          msg |-> "An invalid request was made."]
  ELSE [kind |-> "return",
        value |-> [status_code |-> r.status_code, results |-> <<>>,
                   next |-> 0]]

\* ------------------------------------------------------------------- _get
\* What _get does with response r: return r.json(), exit, or fall off the
\* end of the function and return None.
_get(r) ==
  IF r.status_code = 200 THEN [kind |-> "return", value |-> r]
  ELSE IF r.status_code = 403
    THEN [kind |-> "exit", code |-> 1,
          msg |-> "An invalid API key was specified."]
  ELSE IF r.status_code = 400
    THEN [kind |-> "exit", code |-> 1,
          msg |-> "An invalid request was made."]
  ELSE [kind |-> "none"]

\* The service's side of a request for URL u answered by r.
Serve(u, r) ==
  /\ requests' = Append(requests, u)
  /\ pages' = IF u <= Len(pages) THEN pages ELSE Append(pages, r)

\* sys.exit(1) inside _get: SystemExit unwinds the generator and main's
\* with-block, which closes the file.
SysExit(res) ==
  /\ pc' = "exited"
  /\ stdout' = Append(stdout, res.msg)
  /\ exit_code' = res.code
  /\ error' = "SystemExit"
  /\ f_open' = FALSE

\* An uncaught exception: the with-block closes the file, the interpreter
\* prints a traceback and exits with status 1.
Raise(exc) ==
  /\ pc' = "crashed"
  /\ exit_code' = 1
  /\ error' = exc
  /\ f_open' = FALSE
  /\ stdout' = stdout

\* ------------------------------------------------------------ iter_pulses
\* initial_results = _get(key, mtime, limit); with None returned, the
\* subscript initial_results['results'] raises TypeError.
InitialGet ==
  /\ pc = "gen" /\ gen = "start"
  /\ \E r \in Responses(RequestUrl(0)) :
       LET res == _get(r) IN
       /\ Serve(RequestUrl(0), r)
       /\ IF res.kind = "return"
            THEN /\ initial_results' = res.value
                 /\ idx' = 1
                 /\ gen' = "initial_for"
                 /\ UNCHANGED <<pc, stdout, exit_code, error, f_open>>
            ELSE /\ IF res.kind = "exit" THEN SysExit(res)
                                         ELSE Raise("TypeError")
                 /\ UNCHANGED <<initial_results, idx, gen>>
  /\ UNCHANGED <<_MAP, f, json_data, next_request, pulse, ind, yielded>>

\* InitialYield with the yield missing: the first page's pulses are passed
\* over.
InitialYield_Dropped ==
  /\ pc = "gen" /\ gen = "initial_for"
  /\ idx <= Len(initial_results.results)
  /\ idx' = idx + 1
  /\ UNCHANGED <<_MAP, pc, gen, f, f_open, stdout, exit_code, error, pages,
                 requests, initial_results, json_data, next_request, pulse,
                 ind, yielded>>

\* for result in initial_results['results']: yield result
InitialYield ==
  /\ pc = "gen" /\ gen = "initial_for"
  /\ idx <= Len(initial_results.results)
  /\ pulse' = initial_results.results[idx]
  /\ yielded' = Append(yielded, initial_results.results[idx])
  /\ ind' = 1
  /\ pc' = "indicators"
  /\ UNCHANGED <<_MAP, gen, f, f_open, stdout, exit_code, error, pages,
                 requests, initial_results, json_data, next_request, idx>>

\* The for-loop is exhausted: next_request = initial_results['next']
InitialDone ==
  /\ pc = "gen" /\ gen = "initial_for"
  /\ idx > Len(initial_results.results)
  /\ next_request' = initial_results.next
  /\ gen' = "while"
  /\ UNCHANGED <<_MAP, pc, f, f_open, stdout, exit_code, error, pages,
                 requests, initial_results, json_data, idx, pulse, ind,
                 yielded>>

\* while next_request: json_data = _get(key, mtime, next_request=...)
LoopGet ==
  /\ pc = "gen" /\ gen = "while"
  /\ next_request # 0
  /\ \E r \in Responses(RequestUrl(next_request)) :
       LET res == _get(r) IN
       /\ Serve(RequestUrl(next_request), r)
       /\ IF res.kind = "return"
            THEN /\ json_data' = res.value
                 /\ idx' = 1
                 /\ gen' = "loop_for"
                 /\ UNCHANGED <<pc, stdout, exit_code, error, f_open>>
            ELSE /\ IF res.kind = "exit" THEN SysExit(res)
                                         ELSE Raise("TypeError")
                 /\ UNCHANGED <<json_data, idx, gen>>
  /\ UNCHANGED <<_MAP, f, initial_results, next_request, pulse, ind,
                 yielded>>

\* for result in json_data['results']: yield result
LoopYield ==
  /\ pc = "gen" /\ gen = "loop_for"
  /\ idx <= Len(json_data.results)
  /\ pulse' = json_data.results[idx]
  /\ yielded' = Append(yielded, json_data.results[idx])
  /\ ind' = 1
  /\ pc' = "indicators"
  /\ UNCHANGED <<_MAP, gen, f, f_open, stdout, exit_code, error, pages,
                 requests, initial_results, json_data, next_request, idx>>

\* LoopDone with the assignment to next_request missing: the loop asks for
\* the same page again.
LoopDone_KeepsRequest ==
  /\ pc = "gen" /\ gen = "loop_for"
  /\ idx > Len(json_data.results)
  /\ gen' = "while"
  /\ UNCHANGED <<_MAP, pc, f, f_open, stdout, exit_code, error, pages,
                 requests, initial_results, json_data, next_request, idx,
                 pulse, ind, yielded>>

\* The for-loop is exhausted: next_request = json_data['next']
LoopDone ==
  /\ pc = "gen" /\ gen = "loop_for"
  /\ idx > Len(json_data.results)
  /\ next_request' = json_data.next
  /\ gen' = "while"
  /\ UNCHANGED <<_MAP, pc, f, f_open, stdout, exit_code, error, pages,
                 requests, initial_results, json_data, idx, pulse, ind,
                 yielded>>

\* while next_request is false: the generator returns, main's for-loop and
\* with-block end, the file is closed and the process exits with status 0.
Return ==
  /\ pc = "gen" /\ gen = "while"
  /\ next_request = 0
  /\ pc' = "done"
  /\ gen' = "finished"
  /\ f_open' = FALSE
  /\ exit_code' = 0
  /\ UNCHANGED <<_MAP, f, stdout, error, pages, requests, initial_results,
                 json_data, next_request, idx, pulse, ind, yielded>>

\* ------------------------------------------------------------------- main
\* map_indicator_type written with _MAP.get(indicator_type, 'Unsupported').
map_indicator_type_Default(indicator_type) ==
  IF indicator_type \in DOMAIN _MAP
    THEN [raised |-> FALSE, value |-> _MAP[indicator_type]]
    ELSE [raised |-> FALSE, value |-> "Unsupported"]

\* return _MAP[indicator_type]: the value, or KeyError.
map_indicator_type(indicator_type) ==
  IF indicator_type \in DOMAIN _MAP
    THEN [raised |-> FALSE, value |-> _MAP[indicator_type]]
    ELSE [raised |-> TRUE, exc |-> "KeyError"]

\* The test against a sentinel _MAP never holds.
IsUnsupported_WrongSentinel(bro_type) == bro_type = "Intel::UNSUPPORTED"

\* if bro_type == 'Unsupported': continue
IsUnsupported(bro_type) == bro_type = "Unsupported"

\* Url taking the last reference, pulse['references'][-1].
Url_LastReference(p) ==
  IF Len(p.references) >= 1 THEN p.references[Len(p.references)]
                            ELSE FallbackUrl

\* try: url = pulse['references'][0]  except IndexError: url = fallback
Url(p) ==
  IF Len(p.references) >= 1 THEN p.references[1] ELSE FallbackUrl

\* The list `fields`; '\t'.join(fields) is the line written.
Fields(p, indicator, bro_type) ==
  <<indicator.indicator, bro_type, p.author_name, Url(p),
    do_notice \o "\n">>

\* OpenOutfile with f.write(_HEADER) missing.
OpenOutfile_NoHeader ==
  /\ pc = "open"
  /\ f' = <<>>
  /\ f_open' = TRUE
  /\ pc' = "gen"
  /\ UNCHANGED <<_MAP, gen, stdout, exit_code, error, pages, requests,
                 initial_results, json_data, next_request, idx, pulse, ind,
                 yielded>>

\* f.write('\t'.join(fields)).  The script is Python 2 (it imports
\* ConfigParser): the strings of r.json() are unicode objects, so the joined
\* line is one too, and the file, opened 'wb', encodes it with the default
\* codec, ascii, which raises UnicodeEncodeError on any other character.
Encodes(line) == \A k \in 1..Len(line) : line[k] \notin NonAscii

\* with open(outfile, 'wb') as f: f.write(_HEADER); then the for-loop
\* starts the generator.
OpenOutfile ==
  /\ pc = "open"
  /\ f' = <<_HEADER>>
  /\ f_open' = TRUE
  /\ pc' = "gen"
  /\ UNCHANGED <<_MAP, gen, stdout, exit_code, error, pages, requests,
                 initial_results, json_data, next_request, idx, pulse, ind,
                 yielded>>

\* One pass of the body of `for indicator in pulse['indicators']`.
Indicator ==
  /\ pc = "indicators"
  /\ ind <= Len(pulse.indicators)
  /\ LET indicator == pulse.indicators[ind]
         m == map_indicator_type(indicator.type)
     IN IF m.raised
          THEN /\ Raise(m.exc)
               /\ UNCHANGED <<f, ind>>
        ELSE IF IsUnsupported(m.value)
          THEN /\ ind' = ind + 1
               /\ UNCHANGED <<f, pc, stdout, exit_code, error, f_open>>
        ELSE IF Encodes(Fields(pulse, indicator, m.value))
          THEN /\ f' = Append(f, Fields(pulse, indicator, m.value))
               /\ ind' = ind + 1
               /\ UNCHANGED <<pc, stdout, exit_code, error, f_open>>
          ELSE /\ Raise("UnicodeEncodeError")
               /\ UNCHANGED <<f, ind>>
  /\ UNCHANGED <<_MAP, gen, pages, requests, initial_results, json_data,
                 next_request, idx, pulse, yielded>>

\* NextPulse as it would be with a `break` after the first indicator: the
\* generator is resumed while indicators of the pulse are still unwritten.
NextPulse_Early ==
  /\ pc = "indicators"
  /\ ind > 1
  /\ pc' = "gen"
  /\ idx' = idx + 1
  /\ UNCHANGED <<_MAP, gen, f, f_open, stdout, exit_code, error, pages,
                 requests, initial_results, json_data, next_request, pulse,
                 ind, yielded>>

\* The inner for-loop is exhausted: main asks the generator for the next
\* pulse, which resumes after its yield.
NextPulse ==
  /\ pc = "indicators"
  /\ ind > Len(pulse.indicators)
  /\ pc' = "gen"
  /\ idx' = idx + 1
  /\ UNCHANGED <<_MAP, gen, f, f_open, stdout, exit_code, error, pages,
                 requests, initial_results, json_data, next_request, pulse,
                 ind, yielded>>

Next ==
  \/ OpenOutfile
  \/ InitialGet
  \/ InitialYield
  \/ InitialDone
  \/ LoopGet
  \/ LoopYield
  \/ LoopDone
  \/ Return
  \/ Indicator
  \/ NextPulse

Spec == Init /\ [][Next]_vars

\* The script is sequential and nothing blocks it but the service, which
\* answers every request: a step that can be taken is taken.
LiveSpec == Spec /\ WF_vars(Next)

\* =================================================================== claims
\* What the properties below are stated against: the documented table, the
\* documented header, and the file a run is expected to have produced, all
\* computed from the pages the service has served and not from the
\* program's own operators.

Terminal == {"done", "exited", "crashed"}

DocumentedCategory ==
  "IPv4" :> "Intel::ADDR" @@ "IPv6" :> "Intel::ADDR" @@
  "domain" :> "Intel::DOMAIN" @@ "hostname" :> "Intel::DOMAIN" @@
  "email" :> "Intel::EMAIL" @@
  "URL" :> "Intel::URL" @@ "URI" :> "Intel::URL" @@
  "FileHash-MD5" :> "Intel::FILE_HASH" @@
  "FileHash-SHA1" :> "Intel::FILE_HASH" @@
  "FileHash-SHA256" :> "Intel::FILE_HASH" @@
  "CVE" :> "Unsupported" @@ "Mutex" :> "Unsupported" @@
  "CIDR" :> "Unsupported"

DocumentedHeader ==
  <<"#fields", "indicator", "indicator_type", "meta.source", "meta.url",
    "meta.do_notice\n">>

IsPrefix(a, b) == Len(a) <= Len(b) /\ SubSeq(b, 1, Len(a)) = a

\* results(P1) \o results(P2) \o ... of the pages answered with 200.
RECURSIVE AllResults(_)
AllResults(ps) ==
  IF ps = <<>> THEN <<>>
  ELSE (IF Head(ps).status_code = 200 THEN Head(ps).results ELSE <<>>)
       \o AllResults(Tail(ps))

\* The (pulse, indicator) pairs of a sequence of pulses, in pulse order then
\* indicator order.
RECURSIVE Flatten(_)
Flatten(ps) ==
  IF ps = <<>> THEN <<>>
  ELSE [k \in 1..Len(Head(ps).indicators) |->
          [p |-> Head(ps), i |-> Head(ps).indicators[k]]]
       \o Flatten(Tail(ps))

KnownType(t) == t \in DOMAIN DocumentedCategory
AllKnown(p) == \A k \in 1..Len(p.indicators) : KnownType(p.indicators[k].type)

\* The pairs before the first one whose type is not in the table.
RECURSIVE UpToUnknown(_)
UpToUnknown(xs) ==
  IF xs = <<>> \/ ~KnownType(Head(xs).i.type) THEN <<>>
  ELSE <<Head(xs)>> \o UpToUnknown(Tail(xs))

IsKept(x) == DocumentedCategory[x.i.type] # "Unsupported"
Kept(xs) == SelectSeq(UpToUnknown(xs), IsKept)

ExpectedUrl(p) ==
  IF p.references = <<>> THEN "https://otx.alienvault.com"
                         ELSE Head(p.references)

ExpectedLine(x) ==
  <<x.i.indicator, DocumentedCategory[x.i.type], x.p.author_name,
    ExpectedUrl(x.p), do_notice \o "\n">>

\* The header, then one line per kept pair.
ExpectedFile(xs) ==
  LET kept == Kept(xs)
  IN <<DocumentedHeader>> \o [k \in 1..Len(kept) |-> ExpectedLine(kept[k])]

\* How many pairs of the yielded pulses main's inner loop has gone through.
Consumed ==
  IF yielded = <<>> THEN 0
  ELSE Len(Flatten(yielded)) - Len(pulse.indicators) + (ind - 1)

ConsumedPairs == SubSeq(Flatten(yielded), 1, Consumed)

\* The response the k-th request got.
Answer(k) == pages[requests[k]]

\* C1: the pulses yielded are results(P1), results(P2), ... in the order
\* served: at every moment a prefix of that concatenation, and the whole of
\* it whenever the generator is between pages or has returned.
PulsesInServedOrder ==
  /\ IsPrefix(yielded, AllResults(pages))
  /\ ((pc = "gen" /\ gen = "while") \/ pc = "done")
       => yielded = AllResults(pages)

\* A run over two pages of two pulses each has returned normally.
TwoFullPagesYielded ==
  /\ pc = "done"
  /\ Len(pages) = 2
  /\ Len(pages[1].results) = 2 /\ Len(pages[2].results) = 2
  /\ pages[1].results[1] # pages[1].results[2]
  /\ Len(yielded) = 4

\* C2: no data record of the file has the category 'Unsupported', and no
\* record carries the value of a CVE, Mutex or CIDR indicator.
NoUnsupportedRecord ==
  \A n \in 2..Len(f) :
    /\ f[n][2] # "Unsupported"
    /\ \A p \in Pulses : \A k \in 1..Len(p.indicators) :
         p.indicators[k].type \in {"CVE", "Mutex", "CIDR"}
           => f[n][1] # p.indicators[k].indicator

\* An unsupported indicator was passed over and a record written after it.
SkippedThenWrote ==
  /\ pc = "indicators"
  /\ ind = 3
  /\ pulse.indicators[1].type = "Mutex"
  /\ Len(f) >= 2
  /\ f[Len(f)][1] = pulse.indicators[2].indicator

\* C3: once the file is opened its first line is the header, and no later
\* line is the header; before that nothing is written.
HeaderFirstAndOnce ==
  /\ pc = "open" => f = <<>>
  /\ pc # "open" =>
       /\ Len(f) >= 1
       /\ f[1] = DocumentedHeader
       /\ \A n \in 2..Len(f) : f[n] # DocumentedHeader

\* A run that wrote records and then ended on a fatal error.
AbortedAfterRecords == pc \in {"exited", "crashed"} /\ Len(f) >= 3

\* C4: a request answered 403 or 400 is the last request, the process has
\* exited with status 1, and the file holds the records of the pages before
\* it and nothing more; a run that ended with every response 200 and every
\* indicator type in the table ended with status 0.
FatalStatusExitsWithOne ==
  /\ \A k \in 1..Len(requests) :
       Answer(k).status_code \in {400, 403} =>
         /\ k = Len(requests)
         /\ pc = "exited"
         /\ exit_code = 1
         /\ ~f_open
         /\ f = ExpectedFile(Flatten(AllResults(SubSeq(pages, 1, requests[k] - 1))))
  /\ (/\ pc \in Terminal
      /\ \A u \in 1..Len(pages) :
           /\ pages[u].status_code = 200
           /\ \A j \in 1..Len(pages[u].results) : AllKnown(pages[u].results[j]))
       => (pc = "done" /\ exit_code = 0)
  /\ pc \notin Terminal => exit_code = -1

\* C5, the safety part: the generator returns only after a 200 response
\* with an empty `next`, having yielded that page's pulses; every earlier
\* response was a 200 with a `next`, and the following request went there.
LoopEndsOnEmptyNext ==
  /\ gen = "finished" =>
       /\ requests # <<>>
       /\ Answer(Len(requests)).status_code = 200
       /\ Answer(Len(requests)).next = 0
       /\ yielded = AllResults(pages)
  /\ \A k \in 1..(Len(requests) - 1) :
       /\ Answer(k).status_code = 200
       /\ Answer(k).next # 0
       /\ requests[k + 1] = Answer(k).next

MapIsDocumentedTable ==
  /\ _MAP = DocumentedCategory
  /\ \A t \in DOMAIN DocumentedCategory :
       map_indicator_type(t) = [raised |-> FALSE, value |-> DocumentedCategory[t]]
  /\ LET kept == Kept(ConsumedPairs)
     IN \A n \in 2..Len(f) :
          /\ n - 1 <= Len(kept)
          /\ f[n][2] = DocumentedCategory[kept[n - 1].i.type]

\* Every indicator of Pulse2, which carries nine of the table's tags, has
\* been mapped.
MappedWholePulse ==
  /\ pc = "indicators"
  /\ pulse = Pulse2
  /\ ind > Len(pulse.indicators)
  /\ Len(f) >= 8

\* C7: main never goes past an indicator whose type is not in the table:
\* the run crashes on it with KeyError and status 1, the file closed and
\* holding exactly the records written before it.
UnknownTypeIsFatal ==
  /\ \A j \in 1..(Len(yielded) - 1) : AllKnown(yielded[j])
  /\ \A k \in 1..Len(pulse.indicators) :
       k < ind => KnownType(pulse.indicators[k].type)
  /\ (ind >= 1 /\ ind <= Len(pulse.indicators)
        /\ ~KnownType(pulse.indicators[ind].type))
       => pc \in {"indicators", "crashed"}
  /\ error = "KeyError" =>
       /\ pc = "crashed"
       /\ exit_code = 1
       /\ ~f_open
       /\ ind <= Len(pulse.indicators)
       /\ ~KnownType(pulse.indicators[ind].type)
       /\ f = ExpectedFile(ConsumedPairs)
       /\ requests = [k \in 1..Len(pages) |-> k]
       /\ pulse = yielded[Len(yielded)]

\* The run crashed on an unknown type after writing records.
CrashedOnUnknownType == error = "KeyError" /\ Len(f) >= 3

\* C8: a request answered with a status other than 200, 400 and 403 is the
\* last request: the run has crashed with a non-zero status, nothing was
\* yielded from that response and the run did not complete normally.
UnexpectedStatusIsFatal ==
  \A k \in 1..Len(requests) :
    Answer(k).status_code \notin {200, 400, 403} =>
      /\ k = Len(requests)
      /\ pc = "crashed"
      /\ error = "TypeError"
      /\ exit_code = 1
      /\ ~f_open
      /\ yielded = AllResults(SubSeq(pages, 1, requests[k] - 1))

\* The second page was answered 500.
LaterPageUnexpected ==
  /\ Len(requests) = 2
  /\ Answer(2).status_code = 500
  /\ yielded # <<>>

\* C9: the url field of the n-th record is the first reference of the pulse
\* its indicator belongs to, or the fallback when that pulse has none.
UrlIsFirstReferenceOrFallback ==
  LET kept == Kept(ConsumedPairs)
  IN \A n \in 2..Len(f) :
       /\ n - 1 <= Len(kept)
       /\ f[n][4] = ExpectedUrl(kept[n - 1].p)
       /\ kept[n - 1].p.references = <<>>
            => f[n][4] = "https://otx.alienvault.com"

\* The file holds a record with the fallback and one of the pulse with two
\* references.
FallbackAndFirstReferenceWritten ==
  \E m, n \in 2..Len(f) :
    /\ f[m][4] = "https://otx.alienvault.com"
    /\ f[n][4] = "http://r2"
    /\ f[n][3] = "Z"

\* C10: the file always holds the header and exactly the records of the
\* indicators main has gone through; whenever a page is about to be
\* requested, or a request has ended the run, that is every record of every
\* page served before, and each page was requested once, in order.
FetchAndWriteNeverOverlap ==
  /\ pc # "open" => f = ExpectedFile(ConsumedPairs)
  /\ ((pc = "gen" /\ gen \in {"start", "while"})
        \/ error \in {"SystemExit", "TypeError"})
       => /\ yielded = AllResults(pages)
          /\ f = ExpectedFile(Flatten(AllResults(pages)))
  /\ requests = [k \in 1..Len(pages) |-> k]

\* The second page is about to be requested with the first page's records
\* in the file.
SecondRequestAfterRecords ==
  /\ pc = "gen" /\ gen = "while"
  /\ next_request = 2
  /\ Len(f) >= 3

====
